---- MODULE Spec2Model ----
(***************************************************************************)
(* Strategy execution engine of the Binance futures bot:                   *)
(*   src/src/advanced/twap.py          TWAPStrategy                        *)
(*   src/src/advanced/grid_strategy.py GridStrategy                        *)
(*                                                                         *)
(* The registries (active_strategies, active_grids) are Python dicts that  *)
(* map an identifier to a record object.  Record objects live in a heap    *)
(* (twap_heap, grid_heap); a registry entry and a driver's local variable  *)
(* are references (heap indices).  Client calls (start, stop) run in the   *)
(* caller's thread and are one action each; a driver thread is modelled    *)
(* statement by statement, so every interleaving of its reads and writes   *)
(* with the client calls and with other drivers is a behaviour.  There is  *)
(* no lock anywhere in the source.  An augmented assignment (x -= q) is    *)
(* one step: with one driver per record no other write can fall between   *)
(* its read and its write.  With two drivers on one record (colliding      *)
(* identifiers) the updates lost that way are left out.                    *)
(* The outer handlers of the two thread bodies                             *)
(* (twap.py:142-145, grid_strategy.py:157-160) are not modelled: every     *)
(* statement that can raise is inside an inner try.                        *)
(*                                                                         *)
(* SpecTwap and SpecGrid run one strategy with the widest inputs;          *)
(* SpecTwapPair and SpecGridPair run up to MaxStrategies side by side,     *)
(* which is where two start calls can fall into the same clock second.     *)
(*                                                                         *)
(* Quantities and prices are floats in the source.  They are fixed-point   *)
(* integers here, and a float division is a division rounded to the        *)
(* nearest unit (ties to even), as IEEE-754 rounds to the nearest          *)
(* representable value.                                                    *)
(***************************************************************************)
EXTENDS Integers, Sequences, FiniteSets, TLC

\* ---------------------------------------------------------------- bounds
MaxStrategies == 2      \* start calls that create a record, per kind
MaxTime == 2            \* last clock tick
MaxSlices == 3          \* largest num_slices, one strategy running
MaxStops == 2           \* stop calls that find their id, one strategy running
MaxLevels == 3          \* largest grid_count, one grid running
PairSlices == 2         \* largest num_slices, two strategies running
PairLevels == 2         \* largest grid_count, two grids running
PairStops == 1          \* stop calls that find their id, two running
MaxReads == 1           \* snapshots the read calls may return
StartSlices == 2        \* largest num_slices, any start arguments
StartLevels == 4        \* largest grid_count, any start arguments

\* ------------------------------------------------------------- constants
TicksPerSecond == 2     \* clock ticks per second of time.time()
NoTime == -1            \* an absent datetime (end_time, stopped_time)
NoRef == 0              \* an unbound local variable
NoOrder == 0            \* 'order_id': None
MillsPerCent == 10      \* prices are in 1/1000; round(price, 2) keeps 1/100
BandDivisor == 1000     \* level_price * 0.001, the BOTH tolerance

None == "None"

\* what the clients pass and what the gateway answers
Symbols == {"BTCUSDT"}
Sides == {"BUY", "HOLD"}
TotalQuantities == {0, 5}
Durations == {0, 1}
Prices == {10000, 20000}
GridTypes == {"BUY", "SELL", "BOTH", "HOLD"}
UpperPrices == {10000, 20000}
PairPrices == {10000}
LowerPrices == {10000}
OrderQuantities == {0, 1}

TwapTerminal == {"COMPLETED", "STOPPED", "ERROR"}
GridTerminal == {"STOPPED", "ERROR"}

\* ------------------------------------------------------------ arithmetic
\* a / b on floats: the quotient rounded to the nearest representable value
FloatDiv(a, b) ==
    LET q == a \div b
        r == a % b
    IN  IF 2 * r < b THEN q
        ELSE IF 2 * r > b THEN q + 1
        ELSE IF q % 2 = 0 THEN q ELSE q + 1

Min(a, b) == IF a <= b THEN a ELSE b

\* int(time.time())
IntTime(t) == t \div TicksPerSecond

RECURSIVE SumValue(_)
\* sum(order['quantity'] * order['price'] for order in executed_orders)
SumValue(s) ==
    IF s = <<>> THEN 0
    ELSE s[1].quantity * s[1].price + SumValue(Tail(s))

RECURSIVE SumQuantity(_)
SumQuantity(s) ==
    IF s = <<>> THEN 0 ELSE s[1].quantity + SumQuantity(Tail(s))

\* d[k] = v on a dict
DictSet(d, k, v) == [x \in DOMAIN d \cup {k} |-> IF x = k THEN v ELSE d[x]]

VARIABLES
    now,                \* the wall clock, in ticks
    twap_heap,          \* the TWAP record objects, in creation order
    active_strategies,  \* TWAPStrategy.active_strategies: id -> record
    twap_threads,       \* the _execute_twap_slices threads, one per record
    twap_stops,         \* what each stop_twap_strategy call returned
    grid_heap,          \* the grid record objects, in creation order
    active_grids,       \* GridStrategy.active_grids: id -> record
    grid_threads,       \* the _monitor_grid_strategy threads
    grid_stops,         \* what each stop_grid_strategy call returned
    last_call,          \* outcome of the latest client call
    snapshots,          \* the dicts the status and list calls returned
    listing,            \* the get_all_strategies / get_all_grids call under way
    orders              \* how often the gateway was asked to place each order

twap_vars == <<twap_heap, active_strategies, twap_threads, twap_stops>>
grid_vars == <<grid_heap, active_grids, grid_threads, grid_stops>>
read_vars == <<snapshots, listing>>
vars == <<now, twap_vars, grid_vars, last_call, read_vars, orders>>

\* ------------------------------------------------------------------ TWAP
TwapId(symbol, side, t) == <<"TWAP", symbol, side, IntTime(t)>>

NewTwapThread(id) ==
    [strategy_id |-> id, pc |-> "start", strategy |-> NoRef, slice_num |-> 0,
     slice_strategy |-> NoRef, current_price |-> 0, slice_quantity |-> 0,
     exc |-> None]

NewTwapRecord(id, symbol, side, total_quantity, duration_minutes, num_slices) ==
    [id |-> id, symbol |-> symbol, side |-> side,
     total_quantity |-> total_quantity,
     remaining_quantity |-> total_quantity,
     duration_minutes |-> duration_minutes,
     num_slices |-> num_slices,
     slice_quantity |-> FloatDiv(total_quantity, num_slices),
     slice_interval |-> FloatDiv(duration_minutes * 60, num_slices),
     start_time |-> now,
     status |-> "RUNNING",
     executed_orders |-> <<>>,
     total_executed |-> 0,
     average_price |-> 0,
     end_time |-> NoTime,
     error |-> None]

\* a validation that lets a duration of zero pass
TwapParamsValidZeroDuration(side, total_quantity, duration_minutes, num_slices) ==
    /\ side \in {"BUY", "SELL"}
    /\ total_quantity > 0
    /\ duration_minutes >= 0
    /\ num_slices > 0

TwapParamsValid(side, total_quantity, duration_minutes, num_slices) ==
    /\ side \in {"BUY", "SELL"}
    /\ total_quantity > 0
    /\ duration_minutes > 0
    /\ num_slices > 0

ExecuteTwapOrder(symbol, side, total_quantity, duration_minutes, num_slices) ==
    LET id == TwapId(symbol, side, now) IN
    /\ IF TwapParamsValid(side, total_quantity, duration_minutes, num_slices)
       THEN /\ twap_heap' = Append(twap_heap,
                   NewTwapRecord(id, symbol, side, total_quantity,
                                 duration_minutes, num_slices))
            /\ active_strategies' =
                   DictSet(active_strategies, id, Len(twap_heap) + 1)
            /\ twap_threads' = Append(twap_threads, NewTwapThread(id))
            /\ last_call' = [op |-> "execute_twap_order", result |-> "STARTED"]
       ELSE /\ last_call' = [op |-> "execute_twap_order",
                             result |-> "ValueError"]
            /\ UNCHANGED <<twap_heap, active_strategies, twap_threads>>
    /\ UNCHANGED <<now, twap_stops, grid_vars, read_vars, orders>>

\* the dict stop_twap_strategy returns
TwapStopResult(id, rec) ==
    [strategy_id |-> id, status |-> "STOPPED",
     total_executed |-> rec.total_executed,
     remaining_quantity |-> rec.remaining_quantity,
     average_price |-> rec.average_price]

\* the place-order calls the gateway has got so far for record r
RECURSIVE SumOrders(_, _)
SumOrders(o, keys) ==
    IF keys = {} THEN 0
    ELSE LET k == CHOOSE x \in keys : TRUE
         IN  o[k] + SumOrders(o, keys \ {k})

OrdersPlaced(kind, r) ==
    SumOrders(orders, {k \in DOMAIN orders : k[1] = kind /\ k[2] = r})

\* a stop that falls back to the newest record when its id is unknown
StopTwapStrategyNewest(id) ==
    IF twap_heap = <<>>
    THEN /\ last_call' = [op |-> "stop_twap_strategy", result |-> "ValueError"]
         /\ UNCHANGED <<now, twap_vars, grid_vars, read_vars, orders>>
    ELSE LET r == IF id \in DOMAIN active_strategies
                  THEN active_strategies[id] ELSE Len(twap_heap) IN
         /\ twap_heap' = [twap_heap EXCEPT ![r].status = "STOPPED",
                                           ![r].end_time = now]
         /\ twap_stops' = Append(twap_stops,
                [ref |-> r, was |-> twap_heap[r].status,
                 placed |-> OrdersPlaced("TWAP", r),
                 result |-> TwapStopResult(id, twap_heap'[r])])
         /\ last_call' = [op |-> "stop_twap_strategy", result |-> "STOPPED"]
         /\ UNCHANGED <<now, active_strategies, twap_threads, grid_vars,
                        read_vars, orders>>

StopTwapStrategy(id) ==
    IF id \notin DOMAIN active_strategies
    THEN /\ last_call' = [op |-> "stop_twap_strategy", result |-> "ValueError"]
         /\ UNCHANGED <<now, twap_vars, grid_vars, read_vars, orders>>
    ELSE LET r == active_strategies[id] IN
         /\ twap_heap' = [twap_heap EXCEPT ![r].status = "STOPPED",
                                           ![r].end_time = now]
         /\ twap_stops' = Append(twap_stops,
                [ref |-> r, was |-> twap_heap[r].status,
                 placed |-> OrdersPlaced("TWAP", r),
                 result |-> TwapStopResult(id, twap_heap'[r])])
         /\ last_call' = [op |-> "stop_twap_strategy", result |-> "STOPPED"]
         /\ UNCHANGED <<now, active_strategies, twap_threads, grid_vars,
                       read_vars, orders>>

\* the dict get_strategy_status returns
TwapStatus(rec) ==
    [strategy_id |-> rec.id, status |-> rec.status, symbol |-> rec.symbol,
     side |-> rec.side, total_quantity |-> rec.total_quantity,
     total_executed |-> rec.total_executed,
     remaining_quantity |-> rec.remaining_quantity,
     average_price |-> rec.average_price,
     num_slices |-> rec.num_slices,
     executed_slices |-> Len(rec.executed_orders),
     start_time |-> rec.start_time, end_time |-> rec.end_time,
     error |-> rec.error]

\* ---- the read calls, get_strategy_status and get_all_strategies
\* no list call is under way
NoListing == [kind |-> None, size |-> 0, pos |-> 0, out |-> <<>>]

\* a read call that hands out the record object itself
TwapSnapshotShared(r) ==
    [kind |-> "TWAP", shared |-> r, value |-> TwapStatus(twap_heap[r])]

\* what a read call hands to its caller for record r: a dict literal built
\* from the record's scalar fields, which shares no object with the record
\* (shared names the record object the caller would hold otherwise)
TwapSnapshot(r) ==
    [kind |-> "TWAP", shared |-> NoRef, value |-> TwapStatus(twap_heap[r])]

GetStrategyStatus(id) ==
    IF id \notin DOMAIN active_strategies
    THEN /\ last_call' = [op |-> "get_strategy_status",
                          result |-> "ValueError"]
         /\ UNCHANGED <<now, twap_vars, grid_vars, read_vars, orders>>
    ELSE /\ snapshots' = Append(snapshots, TwapSnapshot(active_strategies[id]))
         /\ last_call' = [op |-> "get_strategy_status", result |-> "STATUS"]
         /\ UNCHANGED <<now, twap_vars, grid_vars, listing, orders>>

\* the keys of a registry dict in insertion order: a key keeps the place of
\* its first insertion when a later start assigns to it again
FirstRef(heap, id) ==
    CHOOSE r \in DOMAIN heap :
        /\ heap[r].id = id
        /\ \A q \in 1..(r - 1) : heap[q].id # id

KeyAt(heap, k) ==
    CHOOSE id \in {heap[r].id : r \in DOMAIN heap} :
        Cardinality({FirstRef(heap, heap[r].id) : r \in 1..FirstRef(heap, id)})
            = k

\* for ... in self.active_strategies.items(): the iterator is created
GetAllStrategiesBegin ==
    /\ listing = NoListing
    /\ listing' = [kind |-> "TWAP",
                   size |-> Cardinality(DOMAIN active_strategies),
                   pos |-> 0, out |-> <<>>]
    /\ UNCHANGED <<now, twap_vars, grid_vars, last_call, snapshots, orders>>

\* one step of the iterator: it raises RuntimeError when the dict changed
\* size since the iterator was created, else yields the next key, whose
\* status is appended, or ends the loop and the list is returned
GetAllStrategiesNext ==
    /\ listing.kind = "TWAP"
    /\ IF Cardinality(DOMAIN active_strategies) # listing.size
       THEN /\ listing' = NoListing
            /\ last_call' = [op |-> "get_all_strategies",
                             result |-> "RuntimeError"]
            /\ UNCHANGED snapshots
       ELSE IF listing.pos < listing.size
       THEN /\ listing' = [listing EXCEPT
                   !.pos = @ + 1,
                   !.out = Append(@, TwapSnapshot(
                       active_strategies[KeyAt(twap_heap, listing.pos + 1)]))]
            /\ UNCHANGED <<snapshots, last_call>>
       ELSE /\ snapshots' = snapshots \o listing.out
            /\ listing' = NoListing
            /\ last_call' = [op |-> "get_all_strategies", result |-> "LISTED"]
    /\ UNCHANGED <<now, twap_vars, grid_vars, orders>>

\* ---- the driver thread, _execute_twap_slices and _execute_slice
TwapAt(t, pc) == t \in DOMAIN twap_threads /\ twap_threads[t].pc = pc

TwapFrame == <<now, active_strategies, twap_stops, grid_vars, last_call, read_vars>>

\* the gateway counts an order placement for index idx of record ref
PlaceOrder(kind, ref, idx) ==
    LET key == <<kind, ref, idx>> IN
    orders' = IF key \in DOMAIN orders
              THEN [orders EXCEPT ![key] = @ + 1]
              ELSE DictSet(orders, key, 1)

\* strategy = self.active_strategies[strategy_id]
TwapLookup(t) ==
    /\ TwapAt(t, "start")
    /\ twap_threads' = [twap_threads EXCEPT
           ![t].strategy = active_strategies[twap_threads[t].strategy_id],
           ![t].pc = "loop"]
    /\ UNCHANGED <<twap_heap>> /\ UNCHANGED TwapFrame /\ UNCHANGED orders

\* a loop that never looks at the status
TwapLoopCheckIgnoresStatus(t) ==
    /\ TwapAt(t, "loop")
    /\ LET th == twap_threads[t]
           rec == twap_heap[th.strategy]
       IN  twap_threads' = [twap_threads EXCEPT ![t].pc =
               IF th.slice_num >= rec.num_slices THEN "final"
               ELSE IF th.slice_num > 0 THEN "sleep"
               ELSE "slice"]
    /\ UNCHANGED <<twap_heap>> /\ UNCHANGED TwapFrame /\ UNCHANGED orders

\* for slice_num in range(num_slices): if status != 'RUNNING': break
TwapLoopCheck(t) ==
    /\ TwapAt(t, "loop")
    /\ LET th == twap_threads[t]
           rec == twap_heap[th.strategy]
       IN  twap_threads' = [twap_threads EXCEPT ![t].pc =
               IF th.slice_num >= rec.num_slices THEN "final"
               ELSE IF rec.status # "RUNNING" THEN "final"
               ELSE IF th.slice_num > 0 THEN "sleep"
               ELSE "slice"]
    /\ UNCHANGED <<twap_heap>> /\ UNCHANGED TwapFrame /\ UNCHANGED orders

\* time.sleep(strategy['slice_interval'])
TwapSleep(t) ==
    /\ TwapAt(t, "sleep")
    /\ twap_threads' = [twap_threads EXCEPT ![t].pc = "slice"]
    /\ UNCHANGED <<twap_heap>> /\ UNCHANGED TwapFrame /\ UNCHANGED orders

\* leaving _execute_slice: the locals die, the loop variable advances
TwapReturn(th) ==
    [th EXCEPT !.pc = "loop", !.slice_num = th.slice_num + 1,
               !.slice_strategy = NoRef, !.current_price = 0,
               !.slice_quantity = 0, !.exc = None]

\* _execute_slice: lookup, then the remaining_quantity <= 0 early return
TwapSliceBegin(t) ==
    /\ TwapAt(t, "slice")
    /\ LET th == twap_threads[t]
           s == active_strategies[th.strategy_id]
       IN  twap_threads' = [twap_threads EXCEPT ![t] =
               IF twap_heap[s].remaining_quantity <= 0
               THEN TwapReturn(th)
               ELSE [th EXCEPT !.slice_strategy = s, !.pc = "price"]]
    /\ UNCHANGED <<twap_heap>> /\ UNCHANGED TwapFrame /\ UNCHANGED orders

\* a slice that trades only while the price is at most 10.00
TwapPriceLimited(t, p) ==
    /\ TwapAt(t, "price")
    /\ LET th == twap_threads[t]
           rec == twap_heap[th.slice_strategy]
       IN  twap_threads' = [twap_threads EXCEPT
               ![t].current_price = p,
               ![t].slice_quantity =
                   IF p > 10000 THEN 0
                   ELSE Min(rec.slice_quantity, rec.remaining_quantity),
               ![t].pc = "order"]
    /\ UNCHANGED <<twap_heap>> /\ UNCHANGED TwapFrame /\ UNCHANGED orders

\* futures_symbol_ticker succeeds; slice_quantity = min(...)
TwapPrice(t, p) ==
    /\ TwapAt(t, "price")
    /\ LET th == twap_threads[t]
           rec == twap_heap[th.slice_strategy]
       IN  twap_threads' = [twap_threads EXCEPT
               ![t].current_price = p,
               ![t].slice_quantity =
                   Min(rec.slice_quantity, rec.remaining_quantity),
               ![t].pc = "order"]
    /\ UNCHANGED <<twap_heap>> /\ UNCHANGED TwapFrame /\ UNCHANGED orders

\* futures_symbol_ticker raises
TwapPriceFail(t) ==
    /\ TwapAt(t, "price")
    /\ twap_threads' = [twap_threads EXCEPT
           ![t].exc = "ConnectivityError", ![t].pc = "err_status"]
    /\ UNCHANGED <<twap_heap>> /\ UNCHANGED TwapFrame /\ UNCHANGED orders

\* futures_create_order succeeds
TwapOrder(t) ==
    /\ TwapAt(t, "order")
    /\ twap_threads' = [twap_threads EXCEPT ![t].pc = "append"]
    /\ UNCHANGED <<twap_heap>> /\ UNCHANGED TwapFrame
    /\ PlaceOrder("TWAP", twap_threads[t].slice_strategy, twap_threads[t].slice_num + 1)

\* futures_create_order raises
TwapOrderFail(t) ==
    /\ TwapAt(t, "order")
    /\ twap_threads' = [twap_threads EXCEPT
           ![t].exc = "OrderRejected", ![t].pc = "err_status"]
    /\ UNCHANGED <<twap_heap>> /\ UNCHANGED TwapFrame
    /\ PlaceOrder("TWAP", twap_threads[t].slice_strategy, twap_threads[t].slice_num + 1)

\* strategy['executed_orders'].append({...})
TwapAppend(t) ==
    /\ TwapAt(t, "append")
    /\ LET th == twap_threads[t]
           s == th.slice_strategy
       IN  twap_heap' = [twap_heap EXCEPT ![s].executed_orders =
               Append(@, [slice_num |-> th.slice_num + 1,
                          quantity |-> th.slice_quantity,
                          price |-> th.current_price])]
    /\ twap_threads' = [twap_threads EXCEPT ![t].pc = "dec"]
    /\ UNCHANGED TwapFrame /\ UNCHANGED orders

\* strategy['remaining_quantity'] -= slice_quantity
TwapDec(t) ==
    /\ TwapAt(t, "dec")
    /\ LET th == twap_threads[t] IN
       twap_heap' = [twap_heap EXCEPT
           ![th.slice_strategy].remaining_quantity = @ - th.slice_quantity]
    /\ twap_threads' = [twap_threads EXCEPT ![t].pc = "inc"]
    /\ UNCHANGED TwapFrame /\ UNCHANGED orders

\* strategy['total_executed'] += slice_quantity
TwapInc(t) ==
    /\ TwapAt(t, "inc")
    /\ LET th == twap_threads[t] IN
       twap_heap' = [twap_heap EXCEPT
           ![th.slice_strategy].total_executed = @ + th.slice_quantity]
    /\ twap_threads' = [twap_threads EXCEPT ![t].pc = "avg"]
    /\ UNCHANGED TwapFrame /\ UNCHANGED orders

\* total_value / total_executed if total_executed > 0 else 0
AveragePrice(rec) ==
    IF rec.total_executed > 0
    THEN FloatDiv(SumValue(rec.executed_orders), rec.total_executed)
    ELSE 0

TwapAvg(t) ==
    /\ TwapAt(t, "avg")
    /\ LET th == twap_threads[t]
           s == th.slice_strategy
       IN  /\ twap_heap' = [twap_heap EXCEPT
                  ![s].average_price = AveragePrice(twap_heap[s])]
           /\ twap_threads' = [twap_threads EXCEPT ![t] = TwapReturn(th)]
    /\ UNCHANGED TwapFrame /\ UNCHANGED orders

\* except Exception as e: strategy['status'] = 'ERROR'
TwapErrStatus(t) ==
    /\ TwapAt(t, "err_status")
    /\ twap_heap' = [twap_heap EXCEPT
           ![twap_threads[t].slice_strategy].status = "ERROR"]
    /\ twap_threads' = [twap_threads EXCEPT ![t].pc = "err_detail"]
    /\ UNCHANGED TwapFrame /\ UNCHANGED orders

\* strategy['error'] = str(e)
TwapErrDetail(t) ==
    /\ TwapAt(t, "err_detail")
    /\ LET th == twap_threads[t] IN
       /\ twap_heap' = [twap_heap EXCEPT ![th.slice_strategy].error = th.exc]
       /\ twap_threads' = [twap_threads EXCEPT ![t] = TwapReturn(th)]
    /\ UNCHANGED TwapFrame /\ UNCHANGED orders

\* after the loop: if strategy['status'] == 'RUNNING':
TwapFinalCheck(t) ==
    /\ TwapAt(t, "final")
    /\ LET th == twap_threads[t] IN
       twap_threads' = [twap_threads EXCEPT ![t].pc =
           IF twap_heap[th.strategy].status = "RUNNING"
           THEN "complete" ELSE "done"]
    /\ UNCHANGED <<twap_heap>> /\ UNCHANGED TwapFrame /\ UNCHANGED orders

\* strategy['status'] = 'COMPLETED'
TwapComplete(t) ==
    /\ TwapAt(t, "complete")
    /\ twap_heap' = [twap_heap EXCEPT
           ![twap_threads[t].strategy].status = "COMPLETED"]
    /\ twap_threads' = [twap_threads EXCEPT ![t].pc = "end_time"]
    /\ UNCHANGED TwapFrame /\ UNCHANGED orders

\* strategy['end_time'] = datetime.now()
TwapEndTime(t) ==
    /\ TwapAt(t, "end_time")
    /\ twap_heap' = [twap_heap EXCEPT
           ![twap_threads[t].strategy].end_time = now]
    /\ twap_threads' = [twap_threads EXCEPT ![t].pc = "done"]
    /\ UNCHANGED TwapFrame /\ UNCHANGED orders

\* ------------------------------------------------------------------ grid
GridId(symbol, grid_type, t) == <<"GRID", symbol, grid_type, IntTime(t)>>

\* a price that is kept unrounded
Round2Exact(x) == x

\* round(price, 2)
Round2(x) == FloatDiv(x, MillsPerCent) * MillsPerCent

Abs(x) == IF x < 0 THEN -x ELSE x

NewGridThread(id) ==
    [grid_id |-> id, pc |-> "start", grid |-> NoRef, current_price |-> 0,
     idx |-> 0, exec_grid |-> NoRef, order_id |-> NoOrder, exc |-> None]

\* the levels loop of create_grid_strategy
GridLevels(lower_price, price_step, grid_count, order_quantity) ==
    [i \in 1..grid_count |->
        [level |-> i,
         price |-> Round2(lower_price + (i - 1) * price_step),
         quantity |-> order_quantity,
         status |-> "PENDING",
         order_id |-> NoOrder,
         error |-> None]]

NewGridRecord(id, symbol, grid_type, upper_price, lower_price, grid_count, order_quantity) ==
    LET price_step == FloatDiv(upper_price - lower_price, grid_count - 1) IN
    [id |-> id, symbol |-> symbol, grid_type |-> grid_type,
     upper_price |-> upper_price, lower_price |-> lower_price,
     grid_count |-> grid_count, price_step |-> price_step,
     order_quantity |-> order_quantity,
     grid_levels |->
         GridLevels(lower_price, price_step, grid_count, order_quantity),
     status |-> "ACTIVE",
     created_time |-> now,
     total_orders |-> 0,
     executed_orders |-> 0,
     stopped_time |-> NoTime,
     error |-> None]

\* the outcome of the validation and of the price_step division
GridParamsError(grid_type, upper_price, lower_price, grid_count, order_quantity) ==
    IF grid_type \notin {"BUY", "SELL", "BOTH"} THEN "ValueError"
    ELSE IF upper_price <= lower_price THEN "ValueError"
    ELSE IF grid_count <= 0 THEN "ValueError"
    ELSE IF order_quantity <= 0 THEN "ValueError"
    ELSE IF grid_count - 1 = 0 THEN "ZeroDivisionError"
    ELSE None

CreateGridStrategy(symbol, grid_type, upper_price, lower_price, grid_count, order_quantity) ==
    LET id == GridId(symbol, grid_type, now)
        err == GridParamsError(grid_type, upper_price, lower_price,
                               grid_count, order_quantity)
    IN
    /\ IF err = None
       THEN /\ grid_heap' = Append(grid_heap,
                   NewGridRecord(id, symbol, grid_type, upper_price,
                                 lower_price, grid_count, order_quantity))
            /\ active_grids' = DictSet(active_grids, id, Len(grid_heap) + 1)
            /\ grid_threads' = Append(grid_threads, NewGridThread(id))
            /\ last_call' = [op |-> "create_grid_strategy",
                             result |-> "CREATED"]
       ELSE /\ last_call' = [op |-> "create_grid_strategy", result |-> err]
            /\ UNCHANGED <<grid_heap, active_grids, grid_threads>>
    /\ UNCHANGED <<now, grid_stops, twap_vars, read_vars, orders>>

\* the dict stop_grid_strategy returns
GridStopResult(id, rec) ==
    [grid_id |-> id, status |-> "STOPPED",
     total_orders |-> rec.total_orders,
     executed_orders |-> rec.executed_orders,
     stopped_time |-> rec.stopped_time]

\* the cancel loop: a PENDING level with an order id is cancelled at the
\* gateway, and marked CANCELLED when the gateway accepts (cancel_ok)
CancelPending(levels, cancel_ok) ==
    [i \in DOMAIN levels |->
        IF /\ levels[i].status = "PENDING"
           /\ levels[i].order_id # NoOrder
           /\ cancel_ok[i]
        THEN [levels[i] EXCEPT !.status = "CANCELLED"]
        ELSE levels[i]]

StopGridStrategy(id) ==
    IF id \notin DOMAIN active_grids
    THEN /\ last_call' = [op |-> "stop_grid_strategy", result |-> "ValueError"]
         /\ UNCHANGED <<now, grid_vars, twap_vars, read_vars, orders>>
    ELSE LET r == active_grids[id] IN
         /\ \E cancel_ok \in [DOMAIN grid_heap[r].grid_levels -> BOOLEAN] :
               grid_heap' = [grid_heap EXCEPT
                   ![r].status = "STOPPED",
                   ![r].stopped_time = now,
                   ![r].grid_levels = CancelPending(@, cancel_ok)]
         /\ grid_stops' = Append(grid_stops,
                [ref |-> r, was |-> grid_heap[r].status,
                 result |-> GridStopResult(id, grid_heap'[r])])
         /\ last_call' = [op |-> "stop_grid_strategy", result |-> "STOPPED"]
         /\ UNCHANGED <<now, active_grids, grid_threads, twap_vars,
                       read_vars, orders>>

\* the dict get_grid_status returns
CountLevels(levels, status) ==
    Cardinality({i \in DOMAIN levels : levels[i].status = status})

GridStatus(rec) ==
    [grid_id |-> rec.id, status |-> rec.status, symbol |-> rec.symbol,
     grid_type |-> rec.grid_type,
     price_range |-> <<rec.lower_price, rec.upper_price>>,
     grid_count |-> rec.grid_count, price_step |-> rec.price_step,
     order_quantity |-> rec.order_quantity,
     total_orders |-> rec.total_orders,
     executed_orders |-> rec.executed_orders,
     pending_levels |-> CountLevels(rec.grid_levels, "PENDING"),
     executed_levels |-> CountLevels(rec.grid_levels, "EXECUTED"),
     error_levels |-> CountLevels(rec.grid_levels, "ERROR"),
     created_time |-> rec.created_time, stopped_time |-> rec.stopped_time,
     error |-> rec.error]

\* ---- the read calls, get_grid_status and get_all_grids
GridSnapshot(r) ==
    [kind |-> "GRID", shared |-> NoRef, value |-> GridStatus(grid_heap[r])]

GetGridStatus(id) ==
    IF id \notin DOMAIN active_grids
    THEN /\ last_call' = [op |-> "get_grid_status", result |-> "ValueError"]
         /\ UNCHANGED <<now, twap_vars, grid_vars, read_vars, orders>>
    ELSE /\ snapshots' = Append(snapshots, GridSnapshot(active_grids[id]))
         /\ last_call' = [op |-> "get_grid_status", result |-> "STATUS"]
         /\ UNCHANGED <<now, twap_vars, grid_vars, listing, orders>>

GetAllGridsBegin ==
    /\ listing = NoListing
    /\ listing' = [kind |-> "GRID", size |-> Cardinality(DOMAIN active_grids),
                   pos |-> 0, out |-> <<>>]
    /\ UNCHANGED <<now, twap_vars, grid_vars, last_call, snapshots, orders>>

GetAllGridsNext ==
    /\ listing.kind = "GRID"
    /\ IF Cardinality(DOMAIN active_grids) # listing.size
       THEN /\ listing' = NoListing
            /\ last_call' = [op |-> "get_all_grids", result |-> "RuntimeError"]
            /\ UNCHANGED snapshots
       ELSE IF listing.pos < listing.size
       THEN /\ listing' = [listing EXCEPT
                   !.pos = @ + 1,
                   !.out = Append(@, GridSnapshot(
                       active_grids[KeyAt(grid_heap, listing.pos + 1)]))]
            /\ UNCHANGED <<snapshots, last_call>>
       ELSE /\ snapshots' = snapshots \o listing.out
            /\ listing' = NoListing
            /\ last_call' = [op |-> "get_all_grids", result |-> "LISTED"]
    /\ UNCHANGED <<now, twap_vars, grid_vars, orders>>

\* a trigger that wants the price strictly beyond the level
ShouldTriggerOrderStrict(current_price, level_price, grid_type) ==
    IF grid_type = "BUY" THEN current_price < level_price
    ELSE IF grid_type = "SELL" THEN current_price > level_price
    ELSE Abs(current_price - level_price) * BandDivisor < level_price

\* _should_trigger_order
ShouldTriggerOrder(current_price, level_price, grid_type) ==
    IF grid_type = "BUY" THEN current_price <= level_price
    ELSE IF grid_type = "SELL" THEN current_price >= level_price
    ELSE Abs(current_price - level_price) * BandDivisor < level_price

\* ---- the monitor thread, _monitor_grid_strategy and _execute_grid_order
GridAt(t, pc) == t \in DOMAIN grid_threads /\ grid_threads[t].pc = pc

GridFrame == <<now, active_grids, grid_stops, twap_vars, last_call, read_vars>>

\* grid = self.active_grids[grid_id]
GridLookup(t) ==
    /\ GridAt(t, "start")
    /\ grid_threads' = [grid_threads EXCEPT
           ![t].grid = active_grids[grid_threads[t].grid_id],
           ![t].pc = "while"]
    /\ UNCHANGED <<grid_heap>> /\ UNCHANGED GridFrame /\ UNCHANGED orders

\* a loop that ends when no level is left to execute
GridWhileCheckFinishes(t) ==
    /\ GridAt(t, "while")
    /\ LET rec == grid_heap[grid_threads[t].grid] IN
       grid_threads' = [grid_threads EXCEPT ![t].pc =
           IF /\ rec.status = "ACTIVE"
              /\ \E i \in DOMAIN rec.grid_levels :
                    rec.grid_levels[i].status = "PENDING"
           THEN "price" ELSE "done"]
    /\ UNCHANGED <<grid_heap>> /\ UNCHANGED GridFrame /\ UNCHANGED orders

\* while grid['status'] == 'ACTIVE':
GridWhileCheck(t) ==
    /\ GridAt(t, "while")
    /\ grid_threads' = [grid_threads EXCEPT ![t].pc =
           IF grid_heap[grid_threads[t].grid].status = "ACTIVE"
           THEN "price" ELSE "done"]
    /\ UNCHANGED <<grid_heap>> /\ UNCHANGED GridFrame /\ UNCHANGED orders

\* futures_symbol_ticker succeeds
GridPrice(t, p) ==
    /\ GridAt(t, "price")
    /\ grid_threads' = [grid_threads EXCEPT
           ![t].current_price = p, ![t].idx = 1, ![t].pc = "level"]
    /\ UNCHANGED <<grid_heap>> /\ UNCHANGED GridFrame /\ UNCHANGED orders

\* a monitor whose handler marks the whole grid ERROR on a failed poll
GridPriceFailMarksError(t) ==
    /\ GridAt(t, "price")
    /\ grid_heap' = [grid_heap EXCEPT ![grid_threads[t].grid].status = "ERROR"]
    /\ grid_threads' = [grid_threads EXCEPT ![t].pc = "backoff"]
    /\ UNCHANGED GridFrame /\ UNCHANGED orders

\* futures_symbol_ticker raises: except Exception ... time.sleep(10)
GridPriceFail(t) ==
    /\ GridAt(t, "price")
    /\ grid_threads' = [grid_threads EXCEPT ![t].pc = "backoff"]
    /\ UNCHANGED <<grid_heap>> /\ UNCHANGED GridFrame /\ UNCHANGED orders

\* the next level of the sweep, or time.sleep(5) after the last one
GridAdvance(th, levels) ==
    IF th.idx < Len(levels)
    THEN [th EXCEPT !.idx = th.idx + 1, !.pc = "level",
                    !.exec_grid = NoRef, !.order_id = NoOrder, !.exc = None]
    ELSE [th EXCEPT !.idx = 0, !.pc = "sleep", !.current_price = 0,
                    !.exec_grid = NoRef, !.order_id = NoOrder, !.exc = None]

\* for level in grid['grid_levels']: if PENDING and _should_trigger_order
GridLevelCheck(t) ==
    /\ GridAt(t, "level")
    /\ LET th == grid_threads[t]
           rec == grid_heap[th.grid]
           level == rec.grid_levels[th.idx]
       IN  grid_threads' = [grid_threads EXCEPT ![t] =
               IF /\ level.status = "PENDING"
                  /\ ShouldTriggerOrder(th.current_price, level.price,
                                        rec.grid_type)
               THEN [th EXCEPT !.pc = "order"]
               ELSE GridAdvance(th, rec.grid_levels)]
    /\ UNCHANGED <<grid_heap>> /\ UNCHANGED GridFrame /\ UNCHANGED orders

\* the order id the gateway gives the order of thread t for level i
GatewayOrderId(t, i) == 10 * t + i

\* _execute_grid_order: lookup, futures_create_order succeeds
GridOrder(t) ==
    /\ GridAt(t, "order")
    /\ LET th == grid_threads[t] IN
       grid_threads' = [grid_threads EXCEPT
           ![t].exec_grid = active_grids[th.grid_id],
           ![t].order_id = GatewayOrderId(t, th.idx),
           ![t].pc = "level_status"]
    /\ UNCHANGED <<grid_heap>> /\ UNCHANGED GridFrame
    /\ PlaceOrder("GRID", grid_threads[t].grid, grid_threads[t].idx)

\* _execute_grid_order: lookup, futures_create_order raises
GridOrderFail(t) ==
    /\ GridAt(t, "order")
    /\ LET th == grid_threads[t] IN
       grid_threads' = [grid_threads EXCEPT
           ![t].exec_grid = active_grids[th.grid_id],
           ![t].exc = "OrderRejected",
           ![t].pc = "level_err"]
    /\ UNCHANGED <<grid_heap>> /\ UNCHANGED GridFrame
    /\ PlaceOrder("GRID", grid_threads[t].grid, grid_threads[t].idx)

\* an execution that records the market price in the level
GridLevelStatusAtMarket(t) ==
    /\ GridAt(t, "level_status")
    /\ LET th == grid_threads[t] IN
       grid_heap' = [grid_heap EXCEPT
           ![th.grid].grid_levels[th.idx].status = "EXECUTED",
           ![th.grid].grid_levels[th.idx].price = th.current_price]
    /\ grid_threads' = [grid_threads EXCEPT ![t].pc = "level_order_id"]
    /\ UNCHANGED GridFrame /\ UNCHANGED orders

\* level['status'] = 'EXECUTED'
GridLevelStatus(t) ==
    /\ GridAt(t, "level_status")
    /\ LET th == grid_threads[t] IN
       grid_heap' = [grid_heap EXCEPT
           ![th.grid].grid_levels[th.idx].status = "EXECUTED"]
    /\ grid_threads' = [grid_threads EXCEPT ![t].pc = "level_order_id"]
    /\ UNCHANGED GridFrame /\ UNCHANGED orders

\* level['order_id'] = order['orderId']
GridLevelOrderId(t) ==
    /\ GridAt(t, "level_order_id")
    /\ LET th == grid_threads[t] IN
       grid_heap' = [grid_heap EXCEPT
           ![th.grid].grid_levels[th.idx].order_id = th.order_id]
    /\ grid_threads' = [grid_threads EXCEPT ![t].pc = "total_orders"]
    /\ UNCHANGED GridFrame /\ UNCHANGED orders

\* grid['total_orders'] += 1
GridTotalOrders(t) ==
    /\ GridAt(t, "total_orders")
    /\ grid_heap' = [grid_heap EXCEPT
           ![grid_threads[t].exec_grid].total_orders = @ + 1]
    /\ grid_threads' = [grid_threads EXCEPT ![t].pc = "executed_orders"]
    /\ UNCHANGED GridFrame /\ UNCHANGED orders

\* grid['executed_orders'] += 1
GridExecutedOrders(t) ==
    /\ GridAt(t, "executed_orders")
    /\ LET th == grid_threads[t] IN
       /\ grid_heap' = [grid_heap EXCEPT
              ![th.exec_grid].executed_orders = @ + 1]
       /\ grid_threads' = [grid_threads EXCEPT ![t] =
              GridAdvance(th, grid_heap[th.grid].grid_levels)]
    /\ UNCHANGED GridFrame /\ UNCHANGED orders

\* a handler that gives up the whole grid on a failed order
GridLevelErrStopsGrid(t) ==
    /\ GridAt(t, "level_err")
    /\ LET th == grid_threads[t] IN
       grid_heap' = [grid_heap EXCEPT
           ![th.grid].grid_levels[th.idx].status = "ERROR",
           ![th.grid].status = "ERROR"]
    /\ grid_threads' = [grid_threads EXCEPT ![t].pc = "level_err_detail"]
    /\ UNCHANGED GridFrame /\ UNCHANGED orders

\* except Exception as e: level['status'] = 'ERROR'
GridLevelErr(t) ==
    /\ GridAt(t, "level_err")
    /\ LET th == grid_threads[t] IN
       grid_heap' = [grid_heap EXCEPT
           ![th.grid].grid_levels[th.idx].status = "ERROR"]
    /\ grid_threads' = [grid_threads EXCEPT ![t].pc = "level_err_detail"]
    /\ UNCHANGED GridFrame /\ UNCHANGED orders

\* a handler that records the failure in the grid as well
GridLevelErrDetailMarksGrid(t) ==
    /\ GridAt(t, "level_err_detail")
    /\ LET th == grid_threads[t] IN
       /\ grid_heap' = [grid_heap EXCEPT
              ![th.grid].grid_levels[th.idx].error = th.exc,
              ![th.grid].status = "ERROR",
              ![th.grid].error = th.exc]
       /\ grid_threads' = [grid_threads EXCEPT ![t] =
              GridAdvance(th, grid_heap[th.grid].grid_levels)]
    /\ UNCHANGED GridFrame /\ UNCHANGED orders

\* level['error'] = str(e)
GridLevelErrDetail(t) ==
    /\ GridAt(t, "level_err_detail")
    /\ LET th == grid_threads[t] IN
       /\ grid_heap' = [grid_heap EXCEPT
              ![th.grid].grid_levels[th.idx].error = th.exc]
       /\ grid_threads' = [grid_threads EXCEPT ![t] =
              GridAdvance(th, grid_heap[th.grid].grid_levels)]
    /\ UNCHANGED GridFrame /\ UNCHANGED orders

\* time.sleep(5)
GridSleep(t) ==
    /\ GridAt(t, "sleep")
    /\ grid_threads' = [grid_threads EXCEPT ![t].pc = "while"]
    /\ UNCHANGED <<grid_heap>> /\ UNCHANGED GridFrame /\ UNCHANGED orders

\* a monitor that ends after the backoff wait
GridBackoffGivesUp(t) ==
    /\ GridAt(t, "backoff")
    /\ grid_threads' = [grid_threads EXCEPT ![t].pc = "done"]
    /\ UNCHANGED <<grid_heap>> /\ UNCHANGED GridFrame /\ UNCHANGED orders

\* time.sleep(10)
GridBackoff(t) ==
    /\ GridAt(t, "backoff")
    /\ grid_threads' = [grid_threads EXCEPT ![t].pc = "while"]
    /\ UNCHANGED <<grid_heap>> /\ UNCHANGED GridFrame /\ UNCHANGED orders

\* ----------------------------------------------------------------- clock
Tick ==
    /\ now < MaxTime
    /\ now' = now + 1
    /\ UNCHANGED <<twap_vars, grid_vars, last_call, read_vars, orders>>

\* -------------------------------------------------------- specifications
Init ==
    /\ now = 0
    /\ twap_heap = <<>>
    /\ active_strategies = <<>>
    /\ twap_threads = <<>>
    /\ twap_stops = <<>>
    /\ grid_heap = <<>>
    /\ active_grids = <<>>
    /\ grid_threads = <<>>
    /\ grid_stops = <<>>
    /\ last_call = [op |-> None, result |-> None]
    /\ snapshots = <<>>
    /\ listing = NoListing
    /\ orders = <<>>

\* the identifiers a client may pass to stop: those start can return, and
\* those of the other side, which no start of the model returns
TwapIds == {TwapId(sy, sd, t) : sy \in Symbols, sd \in {"BUY", "SELL"},
                                t \in 0..MaxTime}
GridIds == {GridId(sy, gt, t) : sy \in Symbols, gt \in GridTypes,
                                t \in 0..MaxTime}

\* one step of the TWAP driver thread t; the gateway answers from prices
TwapDriver(t, prices) ==
    \/ TwapLookup(t)
    \/ TwapLoopCheck(t)
    \/ TwapSleep(t)
    \/ TwapSliceBegin(t)
    \/ \E p \in prices : TwapPrice(t, p)
    \/ TwapPriceFail(t)
    \/ TwapOrder(t)
    \/ TwapOrderFail(t)
    \/ TwapAppend(t)
    \/ TwapDec(t)
    \/ TwapInc(t)
    \/ TwapAvg(t)
    \/ TwapErrStatus(t)
    \/ TwapErrDetail(t)
    \/ TwapFinalCheck(t)
    \/ TwapComplete(t)
    \/ TwapEndTime(t)

\* one step of the grid monitor thread t
GridMonitor(t, prices) ==
    \/ GridLookup(t)
    \/ GridWhileCheck(t)
    \/ \E p \in prices : GridPrice(t, p)
    \/ GridPriceFail(t)
    \/ GridLevelCheck(t)
    \/ GridOrder(t)
    \/ GridOrderFail(t)
    \/ GridLevelStatus(t)
    \/ GridLevelOrderId(t)
    \/ GridTotalOrders(t)
    \/ GridExecutedOrders(t)
    \/ GridLevelErr(t)
    \/ GridLevelErrDetail(t)
    \/ GridSleep(t)
    \/ GridBackoff(t)

\* the client of a TWAPStrategy: at most max_strategies records, at most
\* max_stops stops that find their id
TwapClient(max_strategies, max_slices, max_stops) ==
    \/ /\ Len(twap_heap) < max_strategies
       /\ \E sy \in Symbols, sd \in Sides, q \in TotalQuantities,
             d \in Durations, n \in 0..max_slices :
             ExecuteTwapOrder(sy, sd, q, d, n)
    \/ \E id \in TwapIds :
          /\ Len(twap_stops) < max_stops
          /\ StopTwapStrategy(id)

GridClient(max_strategies, max_levels, max_stops) ==
    \/ /\ Len(grid_heap) < max_strategies
       /\ \E sy \in Symbols, gt \in GridTypes, up \in UpperPrices,
             lo \in LowerPrices, n \in 0..max_levels, q \in OrderQuantities :
             CreateGridStrategy(sy, gt, up, lo, n, q)
    \/ \E id \in GridIds :
          /\ Len(grid_stops) < max_stops
          /\ StopGridStrategy(id)

\* one TWAP strategy, its driver and its client
NextTwap ==
    \/ Tick
    \/ TwapClient(1, MaxSlices, MaxStops)
    \/ \E t \in 1..MaxStrategies : TwapDriver(t, Prices)

SpecTwap == Init /\ [][NextTwap]_vars

\* up to MaxStrategies TWAP strategies side by side
NextTwapPair ==
    \/ Tick
    \/ TwapClient(MaxStrategies, PairSlices, PairStops)
    \/ \E t \in 1..MaxStrategies : TwapDriver(t, PairPrices)

SpecTwapPair == Init /\ [][NextTwapPair]_vars

\* one grid, its monitor and its client
NextGrid ==
    \/ Tick
    \/ GridClient(1, MaxLevels, MaxStops)
    \/ \E t \in 1..MaxStrategies : GridMonitor(t, Prices)

SpecGrid == Init /\ [][NextGrid]_vars

\* up to MaxStrategies grids side by side
NextGridPair ==
    \/ Tick
    \/ GridClient(MaxStrategies, PairLevels, PairStops)
    \/ \E t \in 1..MaxStrategies : GridMonitor(t, PairPrices)

SpecGridPair == Init /\ [][NextGridPair]_vars

\* the callers of the read calls: at most max_reads snapshots are kept
TwapReader(max_reads) ==
    \/ \E id \in TwapIds :
          /\ Len(snapshots) < max_reads
          /\ GetStrategyStatus(id)
    \/ /\ Len(snapshots) < max_reads
       /\ GetAllStrategiesBegin
    \/ GetAllStrategiesNext

GridReader(max_reads) ==
    \/ \E id \in GridIds :
          /\ Len(snapshots) < max_reads
          /\ GetGridStatus(id)
    \/ /\ Len(snapshots) < max_reads
       /\ GetAllGridsBegin
    \/ GetAllGridsNext

\* one strategy of either class, with callers that read it
NextRead ==
    \/ Tick
    \/ /\ grid_heap = <<>>
       /\ TwapClient(1, PairSlices, PairStops)
    \/ /\ twap_heap = <<>>
       /\ GridClient(1, PairLevels, PairStops)
    \/ TwapReader(MaxReads)
    \/ GridReader(MaxReads)
    \/ \E t \in 1..MaxStrategies : TwapDriver(t, PairPrices)
    \/ \E t \in 1..MaxStrategies : GridMonitor(t, PairPrices)

SpecRead == Init /\ [][NextRead]_vars

\* the arguments of the start calls: the accepted ones, and rejected ones
\* with one argument out of range or all of them
StartTwapArgs ==
    {<<sd, 5, 1, n>> : sd \in {"BUY", "SELL"}, n \in 1..StartSlices}
    \cup {<<"HOLD", 5, 1, 1>>, <<"BUY", 0, 1, 1>>, <<"BUY", -1, 1, 1>>,
          <<"SELL", 5, 0, 1>>, <<"BUY", 5, -1, 1>>, <<"BUY", 5, 1, 0>>,
          <<"SELL", 5, 1, -1>>, <<"HOLD", 0, 0, 0>>}

StartGridArgs ==
    {<<gt, up, 10000, n, 1>> : gt \in {"BUY", "SELL", "BOTH"},
                               up \in {10010, 20000}, n \in 1..StartLevels}
    \cup {<<"HOLD", 20000, 10000, 2, 1>>, <<"BUY", 10000, 10000, 2, 1>>,
          <<"SELL", 10000, 20000, 2, 1>>, <<"BUY", 20000, 10000, 0, 1>>,
          <<"BOTH", 20000, 10000, -1, 1>>, <<"BUY", 20000, 10000, 2, 0>>,
          <<"SELL", 20000, 10000, 2, -1>>, <<"HOLD", 10000, 20000, 0, 0>>}

\* one strategy of either class started from any arguments and never
\* stopped; a start call that is rejected can come at any time
NextStart ==
    \/ Tick
    \/ \E sy \in Symbols, a \in StartTwapArgs :
          /\ \/ Len(twap_heap) + Len(grid_heap) < 1
             \/ ~TwapParamsValid(a[1], a[2], a[3], a[4])
          /\ ExecuteTwapOrder(sy, a[1], a[2], a[3], a[4])
    \/ \E sy \in Symbols, a \in StartGridArgs :
          /\ \/ Len(twap_heap) + Len(grid_heap) < 1
             \/ GridParamsError(a[1], a[2], a[3], a[4], a[5]) # None
          /\ CreateGridStrategy(sy, a[1], a[2], a[3], a[4], a[5])
    \/ \E t \in 1..MaxStrategies : TwapDriver(t, PairPrices)
    \/ \E t \in 1..MaxStrategies : GridMonitor(t, PairPrices)

SpecStart == Init /\ [][NextStart]_vars

\* the grids side by side with monitor threads that are scheduled fairly and
\* gateway calls that return: a thread that can take a step eventually does
SpecGridPairFair ==
    /\ SpecGridPair
    /\ \A t \in 1..MaxStrategies : WF_vars(GridMonitor(t, PairPrices))

\* ---- two runs of one TWAP strategy that differ in the gateway's prices
TwinSymbols == <<"BTCUSDT", "ETHUSDT">>

\* a record without what names the run and without the prices it recorded
TwinRecord(rec) ==
    [rec EXCEPT !.id = None, !.symbol = None, !.average_price = 0,
                !.executed_orders =
                    [i \in DOMAIN @ |-> [@[i] EXCEPT !.price = 0]]]

\* a driver without what names the run and without the price it read
TwinThread(th) ==
    [th EXCEPT !.strategy_id = None, !.current_price = 0,
               !.strategy = IF @ = NoRef THEN NoRef ELSE 1,
               !.slice_strategy = IF @ = NoRef THEN NoRef ELSE 1]

\* the stop calls of run r, and the orders the gateway got from run r
TwinStops(r) == Cardinality({i \in DOMAIN twap_stops : twap_stops[i].ref = r})

TwinOrders(r) ==
    [k \in 1..MaxSlices |->
        IF <<"TWAP", r, k>> \in DOMAIN orders
        THEN orders[<<"TWAP", r, k>>] ELSE 0]

\* the second run has repeated every step of the first
TwinInSync ==
    /\ Len(twap_heap) = 2
    /\ TwinRecord(twap_heap[1]) = TwinRecord(twap_heap[2])
    /\ TwinThread(twap_threads[1]) = TwinThread(twap_threads[2])
    /\ TwinStops(1) = TwinStops(2)
    /\ TwinOrders(1) = TwinOrders(2)

\* the first run starts, takes a driver step or is stopped; then the second
\* run does the same, with the same gateway outcome and a price of its own
NextTwin ==
    \/ (Len(twap_heap) = 0 \/ TwinInSync) /\ Tick
    \/ /\ Len(twap_heap) = 0
       /\ \E n \in 1..PairSlices :
             ExecuteTwapOrder(TwinSymbols[1], "BUY", 5, 1, n)
    \/ /\ Len(twap_heap) = 1
       /\ ExecuteTwapOrder(TwinSymbols[2], twap_heap[1].side,
                           twap_heap[1].total_quantity,
                           twap_heap[1].duration_minutes,
                           twap_heap[1].num_slices)
    \/ TwinInSync /\ TwapDriver(1, Prices)
    \/ /\ TwinInSync
       /\ TwinStops(1) < PairStops
       /\ StopTwapStrategy(twap_heap[1].id)
    \/ /\ Len(twap_heap) = 2 /\ ~TwinInSync
       /\ TwinStops(1) = TwinStops(2)
       /\ TwapDriver(2, Prices)
       /\ twap_threads'[2].exc = twap_threads[1].exc
    \/ /\ Len(twap_heap) = 2 /\ ~TwinInSync
       /\ TwinStops(1) > TwinStops(2)
       /\ StopTwapStrategy(twap_heap[2].id)

SpecTwin == Init /\ [][NextTwin]_vars

\* the grid with a monitor thread that is scheduled fairly and gateway calls
\* that return: a monitor that can take a step eventually does
SpecGridFair == SpecGrid /\ WF_vars(GridMonitor(1, Prices))

\* ================================================================ claims
Last(s) == s[Len(s)]

\* the step is a stop call that found record r of its registry
TwapStopped(r) ==
    Len(twap_stops') = Len(twap_stops) + 1 /\ Last(twap_stops').ref = r
GridStopped(r) ==
    Len(grid_stops') = Len(grid_stops) + 1 /\ Last(grid_stops').ref = r

\* C1: a stop call that finds the strategy already terminal (TWAP status
\* COMPLETED, STOPPED or ERROR; grid status STOPPED or ERROR) leaves every
\* field of the record as it was, status and end/stopped time included.
C1_StopTerminalIsNoop ==
    [][/\ \A r \in DOMAIN twap_heap :
             twap_heap[r].status \in TwapTerminal /\ TwapStopped(r)
                 => twap_heap'[r] = twap_heap[r]
       /\ \A r \in DOMAIN grid_heap :
             grid_heap[r].status \in GridTerminal /\ GridStopped(r)
                 => grid_heap'[r] = grid_heap[r]]_vars

\* C2: two stop calls with the same id, the first of which found the
\* strategy RUNNING (TWAP) or ACTIVE (grid), return the same snapshot.
C2_StopTwiceSameSnapshot ==
    /\ \A i, j \in DOMAIN twap_stops :
          /\ i < j
          /\ twap_stops[i].was = "RUNNING"
          /\ twap_stops[i].result.strategy_id = twap_stops[j].result.strategy_id
          => twap_stops[i].result = twap_stops[j].result
    /\ \A i, j \in DOMAIN grid_stops :
          /\ i < j
          /\ grid_stops[i].was = "ACTIVE"
          /\ grid_stops[i].result.grid_id = grid_stops[j].result.grid_id
          => grid_stops[i].result = grid_stops[j].result

\* C3: once the status of a TWAP record is COMPLETED, STOPPED or ERROR, no
\* step changes it.
C3_TwapTerminalStable ==
    [][\A r \in DOMAIN twap_heap :
          twap_heap[r].status \in TwapTerminal
              => twap_heap'[r].status = twap_heap[r].status]_vars

\* C4: once the status of a grid record is STOPPED or ERROR, no step of the
\* monitor and no stop call changes it.
C4_GridTerminalStable ==
    [][\A r \in DOMAIN grid_heap :
          grid_heap[r].status \in GridTerminal
              => grid_heap'[r].status = grid_heap[r].status]_vars

\* C4 witness: a grid that was stopped, and then stopped again while its
\* monitor was still inside its loop, is STOPPED with the monitor ended.
C4_Witness ==
    \E r \in DOMAIN grid_heap :
        /\ grid_heap[r].status = "STOPPED"
        /\ Len(grid_stops) = 2
        /\ grid_stops[1].ref = r /\ grid_stops[2].ref = r
        /\ grid_stops[2].was = "STOPPED"
        /\ grid_stops[2].result.executed_orders >
               grid_stops[1].result.executed_orders
        /\ grid_threads[r].pc = "done"

\* C5: remaining_quantity + total_executed = total_quantity in every state
\* of every TWAP record, the states between the field writes of one slice
\* update included.
C5_QuantityConserved ==
    \A r \in DOMAIN twap_heap :
        twap_heap[r].remaining_quantity + twap_heap[r].total_executed
            = twap_heap[r].total_quantity

\* C6: the fills of a COMPLETED TWAP strategy sum to total_quantity and its
\* remaining_quantity is 0.
C6_CompletedFillsSumToTotal ==
    \A r \in DOMAIN twap_heap :
        twap_heap[r].status = "COMPLETED"
            => /\ SumQuantity(twap_heap[r].executed_orders)
                      = twap_heap[r].total_quantity
               /\ twap_heap[r].remaining_quantity = 0

\* the volume-weighted average of the fills
Vwap(fills) ==
    IF fills = <<>> THEN 0
    ELSE FloatDiv(SumValue(fills), SumQuantity(fills))

\* C7: average_price is 0 while a record has no fills, and when a driver
\* finishes a slice update the record's average_price is the sum of
\* quantity * price over its fills divided by the sum of their quantities.
C7_VwapOfFills ==
    /\ [](\A r \in DOMAIN twap_heap :
             twap_heap[r].executed_orders = <<>>
                 => twap_heap[r].average_price = 0)
    /\ [][\A t \in DOMAIN twap_threads :
             TwapAt(t, "avg") /\ twap_threads'[t].pc = "loop"
                 => LET s == twap_threads[t].slice_strategy IN
                    twap_heap'[s].average_price
                        = Vwap(twap_heap'[s].executed_orders)]_vars

\* C8: a TWAP strategy that is COMPLETED, was never stopped, met no gateway
\* failure and was quoted one price p throughout has num_slices fills,
\* total_executed = total_quantity, remaining_quantity = 0 and
\* average_price = p.
C8_EndToEnd ==
    \A r \in DOMAIN twap_heap :
        LET rec == twap_heap[r]
            quoted == {rec.executed_orders[i].price :
                           i \in DOMAIN rec.executed_orders}
        IN  /\ rec.status = "COMPLETED"
            /\ rec.error = None
            /\ \A i \in DOMAIN twap_stops : twap_stops[i].ref # r
            /\ Cardinality(quoted) <= 1
            => /\ Len(rec.executed_orders) = rec.num_slices
               /\ rec.total_executed = rec.total_quantity
               /\ rec.remaining_quantity = 0
               /\ quoted = {rec.average_price}

\* C9: no two start calls return the same identifier.
C9_IdsUnique ==
    /\ \A i, j \in DOMAIN twap_heap :
          i # j => twap_heap[i].id # twap_heap[j].id
    /\ \A i, j \in DOMAIN grid_heap :
          i # j => grid_heap[i].id # grid_heap[j].id

\* C10: the identifier a start call returned stays registered and keeps
\* naming the record that call created.
C10_RecordsStayRegistered ==
    /\ \A r \in DOMAIN twap_heap :
          /\ twap_heap[r].id \in DOMAIN active_strategies
          /\ active_strategies[twap_heap[r].id] = r
    /\ \A r \in DOMAIN grid_heap :
          /\ grid_heap[r].id \in DOMAIN active_grids
          /\ active_grids[grid_heap[r].id] = r

\* C11: a record is written only by the driver thread started with it and by
\* stop calls that find it: every step that changes TWAP record r is a step of
\* thread r or a stop of r, and likewise for the grid records.
C11_OnlyOwnDriverWrites ==
    [][/\ \A r \in DOMAIN twap_heap :
             (twap_heap'[r] # twap_heap[r]) =>
                 (TwapStopped(r) \/ twap_threads'[r] # twap_threads[r])
       /\ \A g \in DOMAIN grid_heap :
             (grid_heap'[g] # grid_heap[g]) =>
                 (GridStopped(g) \/ grid_threads'[g] # grid_threads[g])]_vars

\* the step makes a call to the gateway: a driver thread leaves its price
\* query or its order placement, or a grid stop finds a level to cancel
TwapGatewayCall ==
    \E t \in DOMAIN twap_threads :
        /\ twap_threads[t].pc \in {"price", "order"}
        /\ twap_threads'[t] # twap_threads[t]

GridGatewayCall ==
    \/ \E t \in DOMAIN grid_threads :
          /\ grid_threads[t].pc \in {"price", "order"}
          /\ grid_threads'[t] # grid_threads[t]
    \/ \E g \in DOMAIN grid_heap :
          /\ GridStopped(g)
          /\ \E i \in DOMAIN grid_heap[g].grid_levels :
                /\ grid_heap[g].grid_levels[i].status = "PENDING"
                /\ grid_heap[g].grid_levels[i].order_id # NoOrder

\* C12: a stop or status call whose id is not in the registry fails with the
\* not-found error (ValueError), and the step changes no record, no registry
\* and no thread, and makes no gateway call.
C12_UnknownIdFails ==
    [][/\ \A id \in TwapIds :
             (/\ id \notin DOMAIN active_strategies
              /\ StopTwapStrategy(id) \/ GetStrategyStatus(id))
             => (/\ last_call'.result = "ValueError"
                 /\ UNCHANGED <<twap_heap, active_strategies, twap_threads,
                                grid_heap, active_grids, grid_threads>>
                 /\ ~TwapGatewayCall /\ ~GridGatewayCall)
       /\ \A id \in GridIds :
             (/\ id \notin DOMAIN active_grids
              /\ StopGridStrategy(id) \/ GetGridStatus(id))
             => (/\ last_call'.result = "ValueError"
                 /\ UNCHANGED <<twap_heap, active_strategies, twap_threads,
                                grid_heap, active_grids, grid_threads>>
                 /\ ~TwapGatewayCall /\ ~GridGatewayCall)]_vars

\* a stop with an unknown id has failed while a strategy with fills is running
C12_Witness ==
    /\ last_call = [op |-> "stop_twap_strategy", result |-> "ValueError"]
    /\ Len(twap_heap) = 1
    /\ twap_heap[1].status = "RUNNING"
    /\ twap_heap[1].executed_orders # <<>>

\* C13: execute_twap_order with a side other than BUY and SELL, or with a
\* total quantity, a duration or a slice count that is not positive, fails
\* with ValueError and adds no record, no registry entry and no thread; with
\* all four in range it adds one record, registered under the returned id,
\* with status RUNNING, the whole quantity remaining, no fills and nothing
\* executed, and starts one thread.
C13_TwapStartChecked ==
    [][\A sy \in Symbols, a \in StartTwapArgs :
          ExecuteTwapOrder(sy, a[1], a[2], a[3], a[4]) =>
              IF a[1] \in {"BUY", "SELL"} /\ a[2] > 0 /\ a[3] > 0 /\ a[4] > 0
              THEN /\ Len(twap_heap') = Len(twap_heap) + 1
                   /\ \A r \in DOMAIN twap_heap : twap_heap'[r] = twap_heap[r]
                   /\ Last(twap_heap').status = "RUNNING"
                   /\ Last(twap_heap').total_quantity = a[2]
                   /\ Last(twap_heap').remaining_quantity = a[2]
                   /\ Last(twap_heap').executed_orders = <<>>
                   /\ Last(twap_heap').total_executed = 0
                   /\ active_strategies'[Last(twap_heap').id] = Len(twap_heap')
                   /\ Len(twap_threads') = Len(twap_threads) + 1
                   /\ last_call'.result = "STARTED"
              ELSE /\ last_call'.result = "ValueError"
                   /\ UNCHANGED <<twap_heap, active_strategies,
                                  twap_threads>>]_vars

\* a start call has been rejected while a strategy with fills exists
C13_Witness ==
    /\ last_call = [op |-> "execute_twap_order", result |-> "ValueError"]
    /\ Len(twap_heap) = 1
    /\ Len(twap_threads) = 1
    /\ twap_heap[1].executed_orders # <<>>

\* C14: create_grid_strategy succeeds whenever the grid type is BUY, SELL or
\* BOTH, the upper price is above the lower, and the level count (a single
\* level included) and the order quantity are positive: it adds one ACTIVE
\* record with grid_count levels; with any other arguments it fails with
\* ValueError and adds no record.
C14_GridCreateAccepts ==
    [][\A sy \in Symbols, a \in StartGridArgs :
          CreateGridStrategy(sy, a[1], a[2], a[3], a[4], a[5]) =>
              IF /\ a[1] \in {"BUY", "SELL", "BOTH"}
                 /\ a[2] > a[3]
                 /\ a[4] > 0
                 /\ a[5] > 0
              THEN /\ Len(grid_heap') = Len(grid_heap) + 1
                   /\ Last(grid_heap').status = "ACTIVE"
                   /\ Len(Last(grid_heap').grid_levels) = a[4]
                   /\ last_call'.result = "CREATED"
              ELSE /\ last_call'.result = "ValueError"
                   /\ UNCHANGED <<grid_heap, active_grids,
                                  grid_threads>>]_vars

C16_LevelChangesOnce ==
    [][\A g \in DOMAIN grid_heap :
          \A i \in DOMAIN grid_heap[g].grid_levels :
              LET before == grid_heap[g].grid_levels[i].status
                  after == grid_heap'[g].grid_levels[i].status
              IN before # after =>
                     /\ before = "PENDING"
                     /\ after \in {"EXECUTED", "CANCELLED", "ERROR"}]_vars

\* an order placement has failed for TWAP record s
TwapOrderFailed(s) ==
    \/ twap_heap[s].error = "OrderRejected"
    \/ \E u \in DOMAIN twap_threads :
          /\ twap_threads[u].exc = "OrderRejected"
          /\ twap_threads[u].slice_strategy = s

\* C17: when the order placement of a TWAP slice fails, the handler sets the
\* record's status to ERROR and then its error detail, without recording a
\* fill or changing remaining_quantity or total_executed, and from then on no
\* order is placed for that record, neither for the same slice nor a later one.
C17_OrderFailureEndsTwap ==
    [][\A t \in DOMAIN twap_threads :
          LET th == twap_threads[t]
              s == th.slice_strategy
              SliceUntouched ==
                  /\ twap_heap'[s].executed_orders = twap_heap[s].executed_orders
                  /\ twap_heap'[s].remaining_quantity
                         = twap_heap[s].remaining_quantity
                  /\ twap_heap'[s].total_executed = twap_heap[s].total_executed
          IN twap_threads'[t] # th =>
               /\ (th.pc = "err_status" /\ th.exc = "OrderRejected") =>
                      (twap_heap'[s].status = "ERROR" /\ SliceUntouched)
               /\ (th.pc = "err_detail" /\ th.exc = "OrderRejected") =>
                      (twap_heap'[s].error = "OrderRejected" /\ SliceUntouched)
               /\ th.pc = "order" => ~TwapOrderFailed(s)]_vars

\* C18: when the order placement for a triggered grid level fails, the
\* handler's steps write only that level, first its status ERROR and then its
\* error detail: no grid's status and counters and no other level change, and
\* the monitor goes on to the next level of the sweep, or to the wait before
\* the next poll after the last level.
C18_OrderFailureMarksLevelOnly ==
    [][\A t \in DOMAIN grid_threads :
          LET th == grid_threads[t]
              levels == grid_heap[th.grid].grid_levels
              RestUntouched ==
                  \A g \in DOMAIN grid_heap :
                      /\ grid_heap'[g].status = grid_heap[g].status
                      /\ grid_heap'[g].total_orders = grid_heap[g].total_orders
                      /\ grid_heap'[g].executed_orders
                             = grid_heap[g].executed_orders
                      /\ \A i \in DOMAIN grid_heap[g].grid_levels :
                             (g # th.grid \/ i # th.idx) =>
                                 grid_heap'[g].grid_levels[i]
                                     = grid_heap[g].grid_levels[i]
          IN (grid_threads'[t] # th /\ th.exc = "OrderRejected") =>
               /\ RestUntouched
               /\ th.pc = "level_err" =>
                      /\ grid_heap'[th.grid].grid_levels[th.idx] =
                             [levels[th.idx] EXCEPT !.status = "ERROR"]
                      /\ grid_threads'[t].pc = "level_err_detail"
               /\ th.pc = "level_err_detail" =>
                      /\ grid_heap'[th.grid].grid_levels[th.idx] =
                             [levels[th.idx] EXCEPT !.error = "OrderRejected"]
                      /\ IF th.idx < Len(levels)
                         THEN /\ grid_threads'[t].pc = "level"
                              /\ grid_threads'[t].idx = th.idx + 1
                         ELSE grid_threads'[t].pc = "sleep"]_vars

\* the order of level 1 has failed and the order of level 2 was placed
\* after it, in a grid that is still ACTIVE
C18_Witness ==
    /\ Len(grid_heap) = 1
    /\ grid_heap[1].status = "ACTIVE"
    /\ grid_heap[1].grid_count >= 2
    /\ grid_heap[1].grid_levels[1].status = "ERROR"
    /\ grid_heap[1].grid_levels[1].error = "OrderRejected"
    /\ grid_heap[1].grid_levels[2].status = "EXECUTED"
    /\ grid_heap[1].total_orders = 1
    /\ grid_heap[1].executed_orders = 1

\* a stop call has named the id of record r while r was registered or
\* replaced: the call found r or a record created after r under the same id
TwapStopNamed(r) ==
    /\ r \in DOMAIN twap_heap
    /\ \E i \in DOMAIN twap_stops :
          /\ twap_stops[i].result.strategy_id = twap_heap[r].id
          /\ twap_stops[i].ref >= r

GridStopNamed(g) ==
    /\ g \in DOMAIN grid_heap
    /\ \E i \in DOMAIN grid_stops :
          /\ grid_stops[i].result.grid_id = grid_heap[g].id
          /\ grid_stops[i].ref >= g

\* C19: once stop has been called with the id of a strategy, the thread
\* started for that strategy eventually terminates, for every strategy
\* started, given fair scheduling of the threads.
C19_StopTerminatesDriver ==
    /\ \A r \in 1..MaxStrategies : TwapStopNamed(r) ~> TwapAt(r, "done")
    /\ \A g \in 1..MaxStrategies : GridStopNamed(g) ~> GridAt(g, "done")

\* what the caller reads in the i-th returned snapshot: the copied fields,
\* or the fields of the record object when the snapshot shares it
SnapshotSeen(i) ==
    LET s == snapshots[i] IN
    IF s.shared = NoRef THEN s.value
    ELSE IF s.kind = "TWAP" THEN TwapStatus(twap_heap[s.shared])
    ELSE GridStatus(grid_heap[s.shared])

\* C20: status and list calls return copies: what a caller reads in a
\* snapshot it was given is the same after every later step, whether a
\* driver step or a stop call on the record.
C20_SnapshotsAreCopies ==
    [][\A i \in DOMAIN snapshots : SnapshotSeen(i)' = SnapshotSeen(i)]_vars

\* a snapshot taken of a RUNNING strategy without fills is held while the
\* record has since got a fill and been stopped
C20_Witness ==
    \E i \in DOMAIN snapshots :
        /\ snapshots[i].kind = "TWAP"
        /\ snapshots[i].value.status = "RUNNING"
        /\ snapshots[i].value.executed_slices = 0
        /\ Len(twap_heap) = 1
        /\ twap_heap[1].status = "STOPPED"
        /\ Len(twap_heap[1].executed_orders) >= 1

\* C21: a list call never fails and returns one snapshot for every record
\* that was in the registry when it was called: every step that ends a list
\* call returns the list, with as many snapshots as the registry had entries
\* at the call, also when a start call has inserted a record meanwhile.
C21_ListAllTotal ==
    [][(listing # NoListing /\ listing' = NoListing) =>
           /\ last_call'.result = "LISTED"
           /\ Len(snapshots') = Len(snapshots) + listing.size]_vars

\* C22: in every reachable state a TWAP record has at most num_slices fills.
C22_FillsAtMostSlices ==
    \A r \in DOMAIN twap_heap :
        Len(twap_heap[r].executed_orders) <= twap_heap[r].num_slices

\* C23: a failed price query in a grid poll ends the poll and not the grid:
\* the failing step and the backoff wait change no record (no status, no
\* level, no counter), the monitor goes from the failure to the wait and from
\* the wait to its loop test without placing an order, and the loop test
\* leads to the next price query whenever the status is ACTIVE.
C23_PriceFailureBacksOff ==
    [][\A t \in DOMAIN grid_threads :
          LET th == grid_threads[t]
              after == grid_threads'[t]
          IN after # th =>
               /\ (th.pc = "price" /\ after.pc # "level") =>
                      (after.pc = "backoff" /\ grid_heap' = grid_heap)
               /\ th.pc = "backoff" =>
                      (after.pc = "while" /\ grid_heap' = grid_heap)
               /\ (th.pc = "while" /\ grid_heap[th.grid].status = "ACTIVE")
                      => after.pc = "price"]_vars

\* a price query has failed after an earlier poll placed an order, and the
\* grid is still ACTIVE while its monitor waits to poll again
C23_Witness ==
    /\ Len(grid_heap) = 1
    /\ GridAt(1, "backoff")
    /\ grid_heap[1].status = "ACTIVE"
    /\ grid_heap[1].grid_levels[1].status = "EXECUTED"

\* C24: a failed order placement is never retried: the gateway is asked to
\* place an order at most once for each level of a grid and at most once for
\* each slice index of a TWAP strategy, whether the call succeeded or failed.
C24_OrderPlacedAtMostOnce ==
    \A key \in DOMAIN orders : orders[key] <= 1

\* C25: a TWAP driver that finds the status of its record different from
\* RUNNING at the start of a loop iteration leaves the loop, skips the
\* completion and ends: it makes no gateway call, records no fill and writes
\* no status, and a status that left RUNNING never is RUNNING again.
C25_NotRunningEndsDriver ==
    [][/\ \A t \in DOMAIN twap_threads :
             LET th == twap_threads[t]
                 after == twap_threads'[t]
                 found == twap_heap[th.strategy].status
             IN  after # th =>
                  /\ (/\ th.pc = "loop"
                      /\ th.slice_num < twap_heap[th.strategy].num_slices
                      /\ found # "RUNNING")
                         => (/\ after.pc = "final"
                             /\ twap_heap' = twap_heap
                             /\ orders' = orders)
                  /\ (th.pc = "final" /\ found # "RUNNING")
                         => (/\ after.pc = "done"
                             /\ twap_heap' = twap_heap
                             /\ orders' = orders)
                  /\ th.pc # "done"
       /\ \A r \in DOMAIN twap_heap :
             twap_heap[r].status # "RUNNING"
                 => twap_heap'[r].status # "RUNNING"]_vars

\* the driver left the loop before its last slice on finding the record
\* stopped, and has ended with the record still STOPPED
C25_Witness ==
    /\ Len(twap_heap) = 1
    /\ TwapAt(1, "done")
    /\ twap_threads[1].slice_num < twap_heap[1].num_slices
    /\ twap_heap[1].status = "STOPPED"
    /\ twap_heap[1].executed_orders # <<>>

\* C26: a stop of a grid is honoured at the monitor's next loop iteration:
\* once the status of the record is STOPPED its monitor begins no price
\* poll, so no level sweep starts after the stop.
C26_NoPollAfterStop ==
    [][\A t \in DOMAIN grid_threads :
          (/\ grid_threads[t].pc = "price"
           /\ grid_threads'[t] # grid_threads[t])
          => grid_heap[grid_threads[t].grid].status # "STOPPED"]_vars

\* the trigger condition of a grid of type grid_type for a level at
\* level_price when the poll has read price: at or below the level for BUY,
\* at or above it for SELL, closer than 0.1% of the level price for BOTH
C27_Triggered(price, level_price, grid_type) ==
    \/ grid_type = "BUY" /\ price <= level_price
    \/ grid_type = "SELL" /\ price >= level_price
    \/ /\ grid_type = "BOTH"
       /\ (IF price >= level_price THEN price - level_price
           ELSE level_price - price) * 1000 < level_price

\* C27: in a poll the monitor examines each level against the one price it
\* read: it goes on to place an order for the level exactly if the level is
\* PENDING and the trigger condition holds for that price; orders are placed
\* by no other step, and a level becomes EXECUTED or ERROR only in a step of
\* a monitor that is handling this level with a price that triggers it.
C27_OrderIffTriggered ==
    [][/\ \A t \in DOMAIN grid_threads :
             LET th == grid_threads[t]
                 after == grid_threads'[t]
                 rec == grid_heap[th.grid]
             IN  after # th =>
                  /\ th.pc = "level" =>
                        (after.pc = "order" <=>
                            /\ rec.grid_levels[th.idx].status = "PENDING"
                            /\ C27_Triggered(th.current_price,
                                             rec.grid_levels[th.idx].price,
                                             rec.grid_type))
                  /\ after.pc = "order" => th.pc = "level"
                  /\ (th.pc \notin {"price", "start", "while", "backoff"}
                      /\ after.pc # "sleep")
                        => (/\ after.current_price = th.current_price
                            /\ after.grid = th.grid)
       /\ orders' # orders =>
             \E t \in DOMAIN grid_threads :
                 /\ grid_threads[t].pc = "order"
                 /\ grid_threads'[t] # grid_threads[t]
                 /\ orders' = [k \in DOMAIN orders \cup
                                  {<<"GRID", grid_threads[t].grid,
                                     grid_threads[t].idx>>} |->
                        IF k \in DOMAIN orders
                        THEN IF k = <<"GRID", grid_threads[t].grid,
                                      grid_threads[t].idx>>
                             THEN orders[k] + 1 ELSE orders[k]
                        ELSE 1]
       /\ \A g \in DOMAIN grid_heap :
             \A i \in DOMAIN grid_heap[g].grid_levels :
                 (/\ grid_heap'[g].grid_levels[i].status
                         # grid_heap[g].grid_levels[i].status
                  /\ grid_heap'[g].grid_levels[i].status
                         \in {"EXECUTED", "ERROR"})
                 => \E t \in DOMAIN grid_threads :
                        /\ grid_threads[t].grid = g
                        /\ grid_threads[t].idx = i
                        /\ grid_threads'[t] # grid_threads[t]
                        /\ C27_Triggered(grid_threads[t].current_price,
                                         grid_heap[g].grid_levels[i].price,
                                         grid_heap[g].grid_type)]_vars

\* a sweep of a BOTH grid has ordered the level the price was at and has
\* passed over the level the price was away from
C27_Witness ==
    /\ Len(grid_heap) = 1
    /\ grid_heap[1].grid_type = "BOTH"
    /\ GridAt(1, "sleep")
    /\ \E i, j \in DOMAIN grid_heap[1].grid_levels :
          /\ grid_heap[1].grid_levels[i].status = "EXECUTED"
          /\ grid_heap[1].grid_levels[j].status = "PENDING"
          /\ <<"GRID", 1, i>> \in DOMAIN orders
          /\ <<"GRID", 1, j>> \notin DOMAIN orders

\* C28: the fills of a TWAP record are append-only and strictly sequential:
\* a step leaves the list of fills as it is or appends one fill to it, the
\* slice numbers of the fills increase strictly along the list, and no order
\* is placed on a record while the update for an earlier order of the record
\* is still being written.
C28_FillsSequential ==
    [][/\ \A r \in DOMAIN twap_heap :
             LET fills == twap_heap[r].executed_orders
                 after == twap_heap'[r].executed_orders
             IN  /\ \/ after = fills
                    \/ /\ Len(after) = Len(fills) + 1
                       /\ SubSeq(after, 1, Len(fills)) = fills
                 /\ \A i, j \in DOMAIN after :
                       i < j => after[i].slice_num < after[j].slice_num
       /\ \A t \in DOMAIN twap_threads :
             (twap_threads[t].pc = "order" /\ twap_threads'[t] # twap_threads[t])
             => \A u \in DOMAIN twap_threads :
                    ~(/\ twap_threads[u].pc \in {"append", "dec", "inc", "avg"}
                      /\ twap_threads[u].slice_strategy
                            = twap_threads[t].slice_strategy)]_vars

\* C29: once a grid is created, the number of its levels and the index,
\* price and quantity of each level never change: the steps of the monitor
\* and of stop write nothing of a level but its status, order id and error.
C29_LevelsFixed ==
    [][\A g \in DOMAIN grid_heap :
          LET levels == grid_heap[g].grid_levels
              after == grid_heap'[g].grid_levels
          IN  /\ Len(after) = Len(levels)
              /\ \A i \in DOMAIN levels :
                    /\ DOMAIN after[i] = DOMAIN levels[i]
                    /\ \A f \in DOMAIN levels[i] \ {"status", "order_id", "error"} :
                          after[i][f] = levels[i][f]
                    /\ after[i].level = i]_vars

\* a stopped grid holds an executed level that was ordered below its price
C29_Witness ==
    /\ Len(grid_heap) = 1
    /\ grid_heap[1].status = "STOPPED"
    /\ \E i \in DOMAIN grid_heap[1].grid_levels :
          /\ grid_heap[1].grid_levels[i].status = "EXECUTED"
          /\ grid_heap[1].grid_levels[i].order_id # NoOrder
          /\ grid_heap[1].grid_levels[i].price = 20000
          /\ grid_heap[1].grid_type = "BUY"

\* C30: the grid counters are derived from the levels: in every snapshot a
\* status call of a grid has returned, executed_orders is the number of
\* EXECUTED levels of the same snapshot and total_orders is executed_orders.
C30_CountersMatchLevels ==
    \A i \in DOMAIN snapshots :
        snapshots[i].kind = "GRID" =>
            /\ snapshots[i].value.executed_orders
                  = snapshots[i].value.executed_levels
            /\ snapshots[i].value.total_orders
                  = snapshots[i].value.executed_orders

\* a stop of record r has been called
C31_StopRequested(r) == \E i \in DOMAIN twap_stops : twap_stops[i].ref = r

\* C31: the status of a TWAP record is set to COMPLETED only by its driver
\* after a final status check that it made with all num_slices slices
\* processed, no gateway failure recorded and no stop requested so far, and
\* in every state a record whose status is COMPLETED has its end time set.
C31_CompletedOnlyAfterAllSlices ==
    [][/\ \A r \in DOMAIN twap_heap :
             /\ twap_heap[r].status = "COMPLETED"
                    => twap_heap[r].end_time # NoTime
             /\ (/\ twap_heap[r].status # "COMPLETED"
                 /\ twap_heap'[r].status = "COMPLETED")
                    => \E t \in DOMAIN twap_threads :
                           /\ twap_threads[t].pc = "complete"
                           /\ twap_threads[t].strategy = r
                           /\ twap_threads'[t] # twap_threads[t]
       /\ \A t \in DOMAIN twap_threads :
             LET th == twap_threads[t] IN
             (th.pc = "final" /\ twap_threads'[t].pc = "complete")
                => /\ th.slice_num = twap_heap[th.strategy].num_slices
                   /\ twap_heap[th.strategy].error = None
                   /\ ~C31_StopRequested(th.strategy)]_vars

\* C32: the error detail of a TWAP record is written only in a step that
\* sets the status of the record to ERROR, and in every state a record
\* carries an error detail exactly if its status is ERROR.
C32_ErrorDetailIffError ==
    [][\A r \in DOMAIN twap_heap :
          /\ twap_heap'[r].error # twap_heap[r].error
                => (/\ twap_heap[r].status # "ERROR"
                    /\ twap_heap'[r].status = "ERROR")
          /\ twap_heap[r].error # None <=> twap_heap[r].status = "ERROR"]_vars

\* C33: TWAP execution is time-driven, not price-driven: of two runs of the
\* same strategy under the same schedule, stops and gateway outcomes, the
\* second, after it has repeated a step of the first with a price of its
\* own, agrees with the first on everything but the prices of the fills and
\* average_price: same orders with the same quantities, same status.
C33_PricesDoNotDrive ==
    [][(Len(twap_heap) = 2 /\ ~TwinInSync) => TwinInSync']_vars

\* both runs have ended COMPLETED with two fills, at different prices
C33_Witness ==
    /\ TwinInSync
    /\ TwapAt(1, "done") /\ TwapAt(2, "done")
    /\ twap_heap[1].status = "COMPLETED"
    /\ Len(twap_heap[1].executed_orders) = 2
    /\ twap_heap[1].average_price # twap_heap[2].average_price
    /\ twap_heap[1].executed_orders[2].price
          # twap_heap[2].executed_orders[2].price

\* C34: after a stop call has found a TWAP strategy RUNNING and returned, the
\* gateway gets at most one further order for the strategy: the slice that
\* had passed its status check when stop was called.
C34_OneOrderAfterStop ==
    \A i \in DOMAIN twap_stops :
        twap_stops[i].was = "RUNNING" =>
            OrdersPlaced("TWAP", twap_stops[i].ref) <= twap_stops[i].placed + 1

\* C35: in every state of every TWAP record remaining_quantity and
\* total_executed lie between 0 and total_quantity; the quantity a driver
\* fixes for an order is positive, at most slice_quantity and at most the
\* remaining_quantity it reads, and a slice that finds remaining_quantity
\* at or below 0 returns without a gateway call.
C35_QuantitiesBounded ==
    [][/\ \A r \in DOMAIN twap_heap :
             /\ 0 <= twap_heap[r].remaining_quantity
             /\ twap_heap[r].remaining_quantity <= twap_heap[r].total_quantity
             /\ 0 <= twap_heap[r].total_executed
             /\ twap_heap[r].total_executed <= twap_heap[r].total_quantity
       /\ \A t \in DOMAIN twap_threads :
             LET th == twap_threads[t]
                 after == twap_threads'[t]
             IN  after # th =>
                  /\ (th.pc = "price" /\ after.pc = "order") =>
                        /\ 0 < after.slice_quantity
                        /\ after.slice_quantity
                              <= twap_heap[th.slice_strategy].slice_quantity
                        /\ after.slice_quantity
                              <= twap_heap[th.slice_strategy].remaining_quantity
                  /\ (/\ th.pc = "slice"
                      /\ twap_heap[active_strategies[th.strategy_id]]
                             .remaining_quantity <= 0)
                        => (after.pc = "loop" /\ orders' = orders)
                  /\ th.pc = "order" => after.slice_quantity = th.slice_quantity]_vars

\* C36: the status of a grid record never is ERROR: a failed order marks its
\* level, a failed price poll is retried, and the only change the status of
\* a registered grid undergoes is from ACTIVE to STOPPED, in a stop call.
C36_GridNeverError ==
    [][\A g \in DOMAIN grid_heap :
          /\ grid_heap[g].status # "ERROR"
          /\ grid_heap[g].error = None
          /\ grid_heap'[g].status # grid_heap[g].status
                => /\ grid_heap[g].status = "ACTIVE"
                   /\ grid_heap'[g].status = "STOPPED"
                   /\ GridStopped(g)]_vars

\* the monitor of a grid that holds a failed level waits after a failed
\* price poll, and the grid is ACTIVE
C36_Witness ==
    /\ Len(grid_heap) = 1
    /\ GridAt(1, "backoff")
    /\ grid_heap[1].status = "ACTIVE"
    /\ \E i \in DOMAIN grid_heap[1].grid_levels :
          /\ grid_heap[1].grid_levels[i].status = "ERROR"
          /\ grid_heap[1].grid_levels[i].error = "OrderRejected"

\* every level of grid g has left PENDING, and the grid is ACTIVE
C37_AllLevelsLeft(g) ==
    /\ g \in DOMAIN grid_heap
    /\ grid_heap[g].status = "ACTIVE"
    /\ \A i \in DOMAIN grid_heap[g].grid_levels :
          grid_heap[g].grid_levels[i].status # "PENDING"

\* C37: a grid never finishes on its own: while every level has left PENDING
\* and no stop was called, the status stays ACTIVE, no order is placed, the
\* monitor passes its loop test and never ends, and it polls the price
\* again and again.
C37_GridNeverFinishes ==
    /\ [][C37_AllLevelsLeft(1) =>
             /\ grid_heap'[1].status # "ACTIVE" => GridStopped(1)
             /\ orders' = orders
             /\ grid_threads'[1].pc # "done"
             /\ (/\ grid_threads[1].pc = "while"
                 /\ grid_threads'[1] # grid_threads[1])
                   => grid_threads'[1].pc = "price"]_vars
    /\ (C37_AllLevelsLeft(1) /\ ~GridAt(1, "price"))
          ~> (GridAt(1, "price") \/ ~C37_AllLevelsLeft(1))
    /\ (C37_AllLevelsLeft(1) /\ GridAt(1, "price"))
          ~> (~GridAt(1, "price") \/ ~C37_AllLevelsLeft(1))

\* the monitor polls again with every level of the ACTIVE grid EXECUTED or
\* ERROR
C37_Witness ==
    /\ C37_AllLevelsLeft(1)
    /\ GridAt(1, "price")
    /\ Len(grid_heap[1].grid_levels) = 2
    /\ grid_heap[1].grid_levels[1].status = "EXECUTED"
    /\ grid_heap[1].grid_levels[2].status = "ERROR"

\* C38: in every state a grid level has an order id exactly if its status is
\* EXECUTED: a PENDING level never has an order id, so that stop finds
\* nothing to cancel, and no level is CANCELLED.
C38_OrderIdIffExecuted ==
    \A g \in DOMAIN grid_heap :
        \A i \in DOMAIN grid_heap[g].grid_levels :
            LET level == grid_heap[g].grid_levels[i] IN
            /\ level.order_id # NoOrder <=> level.status = "EXECUTED"
            /\ level.status # "CANCELLED"

\* a price query has failed for TWAP record s
C39_PriceFailed(s) ==
    \/ twap_heap[s].error = "ConnectivityError"
    \/ \E u \in DOMAIN twap_threads :
          /\ twap_threads[u].exc = "ConnectivityError"
          /\ twap_threads[u].slice_strategy = s

\* C39: when the price query of a TWAP slice fails, the driver goes to the
\* handler without placing an order, the handler sets the status of the
\* record to ERROR and then its error detail, without recording a fill, and
\* from then on no gateway call is made for that record: neither the order
\* of that slice nor the price query or the order of a later one.
C39_PriceFailureEndsTwap ==
    [][\A t \in DOMAIN twap_threads :
          LET th == twap_threads[t]
              after == twap_threads'[t]
              s == th.slice_strategy
              SliceUntouched ==
                  /\ twap_heap'[s].executed_orders = twap_heap[s].executed_orders
                  /\ twap_heap'[s].remaining_quantity
                         = twap_heap[s].remaining_quantity
                  /\ twap_heap'[s].total_executed = twap_heap[s].total_executed
                  /\ orders' = orders
          IN after # th =>
               /\ (th.pc = "price" /\ after.exc = "ConnectivityError") =>
                      (after.pc = "err_status" /\ twap_heap' = twap_heap
                                               /\ orders' = orders)
               /\ (th.pc = "err_status" /\ th.exc = "ConnectivityError") =>
                      (twap_heap'[s].status = "ERROR" /\ SliceUntouched)
               /\ (th.pc = "err_detail" /\ th.exc = "ConnectivityError") =>
                      (twap_heap'[s].error = "ConnectivityError" /\ SliceUntouched)
               /\ th.pc \in {"price", "order"} => ~C39_PriceFailed(s)]_vars

====
